---- MODULE Spec2Model ----
(***************************************************************************)
(* State-machine model of src/app.py: the /api/analyze request handler     *)
(* (analyze_video) and the YouTubeAnalyzer methods it drives               *)
(* (extract_video_id, get_video_info, download_video_segment,              *)
(* analyze_with_gemini, get_fallback_analysis).                            *)
(*                                                                         *)
(* One request is followed from the arrival of its JSON body to the        *)
(* response.  Every call to an external collaborator (yt-dlp, the Gemini   *)
(* file/generation API, the local file system) is one action whose result  *)
(* is chosen nondeterministically among the results the collaborator can   *)
(* produce, an exception included.                                         *)
(*                                                                         *)
(* Python values are modelled by their text, as sequences of tokens:       *)
(* '' is <<>>, None is PyNone, a URL is the sequence of its pieces.        *)
(***************************************************************************)
EXTENDS Integers, Sequences, FiniteSets, TLC

VARIABLES
    pc,                  \* position of the request in analyze_video / analyze_with_gemini
    data,                \* request.get_json()
    info,                \* the dict returned by ydl.extract_info (NoInfo before / on failure)
    video_info,          \* VideoAnalysis built by get_video_info (NoVideoInfo = None)
    video_path,          \* analyze_video's video_path (PyNone or TmpPath)
    tmpFile,             \* the temporary file on disk: "none", "exists", "deleted"
    video_file_uploaded, \* analyze_with_gemini's local: NoFile (None) or a file handle
    remoteFiles,         \* names of the files currently held by the remote service
    ret,                 \* value of the return statement reached in analyze_with_gemini
    orch,                \* analyze_with_gemini call: "idle", "running", "returned", "raised"
    failure,             \* which step of the try body raised ("none" if none did)
    contents,            \* the argument of generate_content_async (<<>> before the call)
    response,            \* what analyze_video answers (NoResponse until then)
    calls,               \* observation: how many times each collaborator was called
    reqs,                \* concurrent requests: each one's position, video_path and file handle
    tmpOwner,            \* temporary files on disk: path -> request that created it (0: no file)
    remoteOwner,         \* files of the remote service: name -> request that uploaded it (0: none)
    foreign              \* observation: a request used or deleted a resource of another one

\* the variables of the concurrent requests
concVars == <<reqs, tmpOwner, remoteOwner, foreign>>

vars == <<pc, data, info, video_info, video_path, tmpFile, video_file_uploaded,
          remoteFiles, ret, orch, failure, contents, response, calls, concVars>>

-----------------------------------------------------------------------------
(* Bounds of the model *)

\* the call counters are exact below MaxPolls and saturate there ("MaxPolls or more")
MaxPolls == 3
\* a provider response deviates from the complete record in at most this many fields
MaxMissing == 1
\* the generation response has at most this many text pieces
MaxTextLen == 3
\* the number of requests served concurrently
NumReqs == 2

-----------------------------------------------------------------------------
(* Python values *)

PyNone == <<"<None>">>
PyTrue == <<"True">>
PyFalse == <<"False">>

\* Python truthiness of the values used in conditions (None, '', False are falsy)
Truthy(v) == v # PyNone /\ v # <<>> /\ v # PyFalse

Min(a, b) == IF a < b THEN a ELSE b

\* a saturating call counter
Inc(n) == Min(n + 1, MaxPolls)

-----------------------------------------------------------------------------
(* extract_video_id: ordered regular expressions over the URL *)

Watch == "youtube.com/watch?v="
WatchHead == "youtube.com/watch"
Short == "youtu.be/"
Embed == "youtube.com/embed/"
VPath == "youtube.com/v/"

\* the characters excluded by the capture group [^&\n?#]+
Delims == {"&", "LF", "?", "#"}

\* the alternatives of the first pattern, and the second pattern
Pattern1 == {Watch, Short, Embed}
Pattern2 == {VPath}
patterns == <<Pattern1, Pattern2>>

\* the greedy capture group started at position i: the longest run without a
\* delimiter (the piece Watch contains a '?', so a run reaching it stops inside it)
RECURSIVE Capture(_, _)
Capture(url, i) ==
    IF i > Len(url) \/ url[i] \in Delims THEN <<>>
    ELSE IF url[i] = Watch THEN <<WatchHead>>
    ELSE <<url[i]>> \o Capture(url, i + 1)

\* positions where the pattern matches: a prefix followed by a non-empty capture
MatchPositions(pattern, url) ==
    {i \in 1..Len(url) : url[i] \in pattern /\ Capture(url, i + 1) # <<>>}

\* re.search: the leftmost match, its group(1); PyNone when there is none
re_search(pattern, url) ==
    LET M == MatchPositions(pattern, url)
    IN  IF M = {} THEN PyNone
        ELSE LET i == CHOOSE k \in M : \A j \in M : k <= j
             IN  Capture(url, i + 1)

\* the for loop over patterns: the first pattern that matches wins
RECURSIVE FirstMatch(_, _)
FirstMatch(url, k) ==
    IF k > Len(patterns) THEN PyNone
    ELSE IF re_search(patterns[k], url) # PyNone THEN re_search(patterns[k], url)
    ELSE FirstMatch(url, k + 1)

extract_video_id(url) == FirstMatch(url, 1)

-----------------------------------------------------------------------------
(* The requests *)

RequestUrls ==
    { PyNone,                                              \* no 'url' key
      <<>>,                                                \* ''
      <<"https://example.com/">>,
      <<"https://", Short>>,
      <<"https://", Short, "abc123">>,
      <<"https://", Short, "abc123", "/", "x">>,
      <<"https://www.", Watch, "abc123", "&", "t=1">>,
      <<"https://www.", Embed, "abc123", "?", "x">>,
      <<"https://www.", VPath, "abc123">>,
      <<"https://www.", VPath, Short, "abc123">> }

NoData == [none |-> TRUE]

Requests ==
    {NoData} \cup
    [url : RequestUrls, analyze_video_content : {PyTrue, PyFalse, PyNone}]

\* a handler that samples every video
SampleAlways(d) == TRUE

\* data.get('analyze_video_content') decides whether the sampler runs (line 189)
SampleRequested(d) == Truthy(d.analyze_video_content)

-----------------------------------------------------------------------------
(* The metadata provider's response and get_video_info *)

Fields == {"id", "title", "description", "thumbnail", "duration", "view_count",
           "like_count", "comment_count", "upload_date", "uploader", "tags"}

ProviderIds == {<<"abc123">>, <<"xyz789">>}

\* a value the provider reports for a field it knows
Present(f) ==
    IF f \in {"duration", "view_count", "like_count", "comment_count"} THEN <<"1234">>
    ELSE IF f = "tags" THEN <<"[", "tag", "]">>
    ELSE <<"text">>

\* the second argument of info.get(f, ...) in lines 71-81
Default(f) ==
    IF f \in {"duration", "view_count", "like_count", "comment_count"} THEN <<"0">>
    ELSE IF f = "tags" THEN <<"[", "]">>
    ELSE <<>>

MissingSets == {M \in SUBSET Fields : Cardinality(M) <= MaxMissing}

\* the dicts extract_info may return: the fields of M are missing, those of
\* N (a subset of M) as a null value, the others by omission of the key
ProviderInfos ==
    { [f \in Fields \ (mn[1] \ mn[2]) |->
            IF f \in mn[2] THEN PyNone
            ELSE IF f = "id" THEN id ELSE Present(f)] :
        mn \in {p \in MissingSets \X MissingSets : p[2] \subseteq p[1]},
        id \in ProviderIds }

NoInfo == [none |-> TRUE]
NoVideoInfo == [none |-> TRUE]

\* dict.get(key, default)
Get(d, key, default) == IF key \in DOMAIN d THEN d[key] ELSE default

\* lines 70-82
VideoAnalysis(i) ==
    [ video_id      |-> Get(i, "id", Default("id")),
      title         |-> Get(i, "title", Default("title")),
      description   |-> Get(i, "description", Default("description")),
      thumbnail_url |-> Get(i, "thumbnail", Default("thumbnail")),
      duration      |-> Get(i, "duration", Default("duration")),
      view_count    |-> Get(i, "view_count", Default("view_count")),
      like_count    |-> Get(i, "like_count", Default("like_count")),
      comment_count |-> Get(i, "comment_count", Default("comment_count")),
      upload_date   |-> Get(i, "upload_date", Default("upload_date")),
      channel_name  |-> Get(i, "uploader", Default("uploader")),
      tags          |-> Get(i, "tags", Default("tags")) ]

\* the VideoAnalysis attribute filled from a provider field
Attr(f) ==
    IF f = "id" THEN "video_id"
    ELSE IF f = "thumbnail" THEN "thumbnail_url"
    ELSE IF f = "uploader" THEN "channel_name"
    ELSE f

-----------------------------------------------------------------------------
(* Responses *)

NoResponse == [none |-> TRUE]
NoAnalysis == [none |-> TRUE]

ErrorResponse(status, message) == [status |-> status, error |-> message]
ReportResponse(vi, an) == [status |-> 200, video_info |-> vi, analysis |-> an]

NoCalls == [c \in {"extract_info", "sampler", "upload", "processing", "sleep", "get_file",
                   "generate", "unlink", "delete_file"} |-> 0]

Count(c) == [calls EXCEPT ![c] = Inc(@)]

-----------------------------------------------------------------------------
(* analyze_with_gemini: the remote file, the prompt, the generation response *)

TmpPath == <<"/tmp/", "tmp1", ".mp4">>

\* the names NamedTemporaryFile can give, and the names the remote service can give
TmpPaths == {TmpPath, <<"/tmp/", "tmp2", ".mp4">>, <<"/tmp/", "tmp3", ".mp4">>}
RemoteNames == {"files/1", "files/2", "files/3"}

NoFile == [none |-> TRUE]

\* states of a remote file; the code names PROCESSING and FAILED, every other
\* state (READY) lets the analysis go on
FileStates == {"PROCESSING", "READY", "FAILED"}

File(name, state) == [name |-> name, state |-> state]

\* a loop that waits for READY
WaitForReady(f) == f.state # "READY"

\* the loop condition of line 115
StillProcessing(f) == f.state = "PROCESSING"

\* a test that lets a failed file through
NeverFailed(f) == FALSE

\* the test of line 119
ProcessingFailed(f) == f.state = "FAILED"

\* lines 126-131: slicing None and formatting None with ',' raise TypeError;
\* a None title or channel name is printed as 'None'
PromptRaises(vi) ==
    \/ vi.description = PyNone
    \/ vi.tags = PyNone
    \/ vi.view_count = PyNone
    \/ vi.like_count = PyNone

\* lines 148-150
Contents(f) == IF f # NoFile THEN <<"prompt", f.name>> ELSE <<"prompt">>

\* pieces of a generation response: code fences, white space, a JSON object of
\* the requested structure, another JSON value, text that is not JSON
\* the three-backquote fence, with and without the word json
FenceJson == "[fence]json"
Fence == "[fence]"
TextTokens == {FenceJson, Fence, "LF", "{report}", "[1]", "junk"}

RECURSIVE SeqsUpTo(_, _)
SeqsUpTo(S, n) ==
    IF n = 0 THEN {<<>>}
    ELSE LET R == SeqsUpTo(S, n - 1)
         IN  R \cup {Append(r, x) : r \in {q \in R : Len(q) = n - 1}, x \in S}

ResponseTexts == SeqsUpTo(TextTokens, MaxTextLen)

\* str.strip(): leading and trailing white space removed
RECURSIVE LStrip(_)
LStrip(t) == IF t # <<>> /\ Head(t) = "LF" THEN LStrip(Tail(t)) ELSE t

RECURSIVE RStrip(_)
RStrip(t) ==
    IF t # <<>> /\ t[Len(t)] = "LF" THEN RStrip(SubSeq(t, 1, Len(t) - 1)) ELSE t

Strip(t) == RStrip(LStrip(t))

\* str.replace(x, ''): every occurrence removed
Remove(t, x) == LET Keep(y) == y # x IN SelectSeq(t, Keep)

\* line 154
result_text(t) == Remove(Remove(Strip(t), FenceJson), Fence)

JSONDecodeError == [raised |-> "JSONDecodeError"]

\* the report the prompt asks for, and the value of the JSON text [1]
SuccessReport ==
    [ overall_score |-> 80, scores |-> {"thumbnail", "title", "description", "tags",
                                        "engagement", "seo"},
      improvements |-> <<"improvement">>, viral_potential |-> 50,
      strengths |-> <<"strength">>, weaknesses |-> <<"weakness">> ]
OtherJson == [list |-> <<1>>]

\* json.loads (line 155): exactly one JSON value, white space around it allowed
json_loads(t) ==
    LET v == Remove(t, "LF")
    IN  IF Len(v) = 1 /\ v[1] = "{report}" THEN SuccessReport
        ELSE IF Len(v) = 1 /\ v[1] = "[1]" THEN OtherJson
        ELSE JSONDecodeError

\* line 170
get_fallback_analysis ==
    [ error |-> "Failed to analyze with Gemini, providing fallback data.",
      overall_score |-> 0, scores |-> {}, improvements |-> <<>>,
      viral_potential |-> 0, strengths |-> <<>>, weaknesses |-> <<>> ]

\* the fixed interval of asyncio.sleep (line 116) and the time slept so far
PollInterval == 2
-----------------------------------------------------------------------------
Init ==
    /\ pc = "request"
    /\ data \in Requests
    /\ info = NoInfo
    /\ video_info = NoVideoInfo
    /\ video_path = PyNone
    /\ tmpFile = "none"
    /\ video_file_uploaded = NoFile
    /\ remoteFiles = {}
    /\ ret = NoAnalysis
    /\ orch = "idle"
    /\ failure = "none"
    /\ contents = <<>>
    /\ response = NoResponse
    /\ calls = NoCalls
    /\ reqs = <<>>
    /\ tmpOwner = [p \in TmpPaths |-> 0]
    /\ remoteOwner = [n \in RemoteNames |-> 0]
    /\ foreign = FALSE

\* analyze_video, lines 181-184: the body and the URL are validated
ValidateRequest ==
    /\ pc = "request"
    /\ UNCHANGED concVars
    /\ IF data = NoData
         THEN \* data.get raises AttributeError, caught at line 196
              /\ response' = ErrorResponse(500, "Internal server error")
              /\ pc' = "done"
         ELSE IF ~Truthy(data.url)
         THEN /\ response' = ErrorResponse(400, "URL is required")
              /\ pc' = "done"
         ELSE IF ~Truthy(extract_video_id(data.url))
         THEN /\ response' = ErrorResponse(400, "Invalid YouTube URL")
              /\ pc' = "done"
         ELSE /\ response' = response
              /\ pc' = "get_video_info"
    /\ UNCHANGED <<data, info, video_info, video_path, tmpFile, video_file_uploaded,
                   remoteFiles, ret, orch, failure, contents, calls>>

\* a handler that goes on without metadata
InfoNeverMissing(vi) == FALSE

\* the test of line 187
InfoMissing(vi) == vi = NoVideoInfo

\* get_video_info (lines 64-85) and lines 186-189 of analyze_video
GetVideoInfo ==
    /\ pc = "get_video_info"
    /\ UNCHANGED concVars
    /\ calls' = Count("extract_info")
    /\ \/ \* extract_info raises: None is returned
          /\ info' = NoInfo
          /\ video_info' = NoVideoInfo
       \/ \E i \in ProviderInfos :
            /\ info' = i
            /\ video_info' = VideoAnalysis(i)
    /\ IF InfoMissing(video_info')
         THEN /\ response' = ErrorResponse(400, "Failed to extract video information")
              /\ pc' = "done"
         ELSE /\ response' = response
              /\ pc' = IF SampleRequested(data) THEN "download_video_segment"
                                                ELSE "analyze_with_gemini"
    /\ UNCHANGED <<data, video_path, tmpFile, video_file_uploaded, remoteFiles, ret,
                   orch, failure, contents>>

\* download_video_segment (lines 87-106), called at line 189
DownloadVideoSegment ==
    /\ pc = "download_video_segment"
    /\ UNCHANGED concVars
    /\ calls' = Count("sampler")
    /\ \/ \* NamedTemporaryFile raises: no file, None returned
          /\ tmpFile' = tmpFile
          /\ video_path' = PyNone
       \/ \* the file is created, ydl.download raises: None returned
          /\ tmpFile' = "exists"
          /\ video_path' = PyNone
       \/ \* the download succeeds: the path is returned
          /\ tmpFile' = "exists"
          /\ video_path' = TmpPath
    /\ pc' = "analyze_with_gemini"
    /\ UNCHANGED <<data, info, video_info, video_file_uploaded, remoteFiles, ret,
                   orch, failure, contents, response>>

\* os.path.exists(video_path)
Exists(path) == path = TmpPath /\ tmpFile = "exists"

\* an except clause that tries the failed call again
RetryOnRaise(step) ==
    /\ failure' = step
    /\ ret' = get_fallback_analysis
    /\ pc' = IF step = "upload" THEN "upload_file"
             ELSE IF step = "generate" THEN "generate"
             ELSE "finally_unlink"

\* the except clause (lines 159-161): the fallback is the value to return
Raise(step) ==
    /\ failure' = step
    /\ ret' = get_fallback_analysis
    /\ pc' = "finally_unlink"

\* lines 115 and 119-120, with the file f just received
AfterState(f) ==
    IF StillProcessing(f)
    THEN /\ pc' = "sleep"
         /\ UNCHANGED <<failure, ret>>
    ELSE IF ProcessingFailed(f)
    THEN Raise("failed_state")
    ELSE /\ pc' = "generate"
         /\ UNCHANGED <<failure, ret>>

\* what the received file adds to the observation
Observe(c, f) ==
    IF f.state = "PROCESSING"
    THEN [calls EXCEPT ![c] = Inc(@), !["processing"] = Inc(@)]
    ELSE Count(c)

\* analyze_with_gemini is entered (lines 110-112)
AnalyzeEnter ==
    /\ pc = "analyze_with_gemini"
    /\ UNCHANGED concVars
    /\ orch' = "running"
    /\ video_file_uploaded' = NoFile
    /\ pc' = IF Truthy(video_path) /\ Exists(video_path) THEN "upload_file"
                                                          ELSE "generate"
    /\ UNCHANGED <<data, info, video_info, video_path, tmpFile, remoteFiles, ret,
                   failure, contents, response, calls>>

\* genai.upload_file (line 114), then lines 115 and 119-120
UploadFile ==
    /\ pc = "upload_file"
    /\ UNCHANGED concVars
    /\ \/ /\ Raise("upload")
          /\ calls' = Count("upload")
          /\ UNCHANGED <<video_file_uploaded, remoteFiles>>
       \/ \E s \in FileStates :
            LET f == File("files/1", s)
            IN  /\ video_file_uploaded' = f
                /\ remoteFiles' = remoteFiles \cup {f.name}
                /\ calls' = Observe("upload", f)
                /\ AfterState(f)
    /\ UNCHANGED <<data, info, video_info, video_path, tmpFile, orch, contents,
                   response>>

\* asyncio.sleep(2) (line 116)
Sleep ==
    /\ pc = "sleep"
    /\ UNCHANGED concVars
    /\ calls' = Count("sleep")
    /\ pc' = "get_file"
    /\ UNCHANGED <<data, info, video_info, video_path, tmpFile, video_file_uploaded,
                   remoteFiles, ret, orch, failure, contents, response>>

\* genai.get_file (line 117), then lines 115 and 119-120
GetFile ==
    /\ pc = "get_file"
    /\ UNCHANGED concVars
    /\ \/ /\ Raise("get_file")
          /\ calls' = Count("get_file")
          /\ UNCHANGED video_file_uploaded
       \/ \E s \in FileStates :
            LET f == File(video_file_uploaded.name, s)
            IN  /\ video_file_uploaded' = f
                /\ calls' = Observe("get_file", f)
                /\ AfterState(f)
    /\ UNCHANGED <<data, info, video_info, video_path, tmpFile, remoteFiles, orch,
                   contents, response>>

\* the prompt, the generation call and the parsing of its text (lines 122-157)
Generate ==
    /\ pc = "generate"
    /\ UNCHANGED concVars
    /\ IF PromptRaises(video_info)
         THEN /\ Raise("prompt")
              /\ UNCHANGED <<contents, calls>>
         ELSE /\ contents' = Contents(video_file_uploaded)
              /\ calls' = Count("generate")
              /\ \/ \* generate_content_async or response.text raises
                    Raise("generate")
                 \/ \E t \in ResponseTexts :
                      IF json_loads(result_text(t)) = JSONDecodeError
                      THEN Raise("json_loads")
                      ELSE /\ ret' = json_loads(result_text(t))
                           /\ pc' = "finally_unlink"
                           /\ failure' = failure
    /\ UNCHANGED <<data, info, video_info, video_path, tmpFile, video_file_uploaded,
                   remoteFiles, orch, response>>

\* the finally clause, lines 163-164
FinallyUnlink ==
    /\ pc = "finally_unlink"
    /\ UNCHANGED concVars
    /\ IF Truthy(video_path) /\ Exists(video_path)
         THEN /\ calls' = Count("unlink")
              /\ \/ /\ tmpFile' = "deleted"
                    /\ pc' = "finally_delete"
                    /\ orch' = orch
                 \/ \* os.unlink raises: the exception leaves analyze_with_gemini
                    /\ tmpFile' = tmpFile
                    /\ pc' = "respond"
                    /\ orch' = "raised"
         ELSE /\ pc' = "finally_delete"
              /\ UNCHANGED <<calls, tmpFile, orch>>
    /\ UNCHANGED <<data, info, video_info, video_path, video_file_uploaded,
                   remoteFiles, ret, failure, contents, response>>

\* a cleanup that releases the remote file as soon as it is READY, before the
\* generation call that refers to it
EagerDelete ==
    /\ pc \in {"finally_delete", "generate"}
    /\ UNCHANGED concVars
    /\ IF video_file_uploaded # NoFile /\ calls["delete_file"] = 0
         THEN /\ calls' = Count("delete_file")
              /\ remoteFiles' = remoteFiles \ {video_file_uploaded.name}
              /\ orch' = IF pc = "generate" THEN orch ELSE "returned"
              /\ pc' = IF pc = "generate" THEN pc ELSE "respond"
         ELSE /\ pc = "finally_delete"
              /\ orch' = "returned"
              /\ pc' = "respond"
              /\ UNCHANGED <<calls, remoteFiles>>
    /\ UNCHANGED <<data, info, video_info, video_path, tmpFile, video_file_uploaded,
                   ret, failure, contents, response>>

\* the finally clause, lines 165-166, and the end of the call
FinallyDelete ==
    /\ pc = "finally_delete"
    /\ UNCHANGED concVars
    /\ IF video_file_uploaded # NoFile
         THEN /\ calls' = Count("delete_file")
              /\ \/ /\ remoteFiles' = remoteFiles \ {video_file_uploaded.name}
                    /\ orch' = "returned"
                 \/ \* genai.delete_file raises: the exception leaves the call
                    /\ remoteFiles' = remoteFiles
                    /\ orch' = "raised"
         ELSE /\ orch' = "returned"
              /\ UNCHANGED <<calls, remoteFiles>>
    /\ pc' = "respond"
    /\ UNCHANGED <<data, info, video_info, video_path, tmpFile, video_file_uploaded,
                   ret, failure, contents, response>>

\* analyze_video, lines 191-198
Respond ==
    /\ pc = "respond"
    /\ UNCHANGED concVars
    /\ response' = IF orch = "returned" THEN ReportResponse(video_info, ret)
                   ELSE ErrorResponse(500, "Internal server error")
    /\ pc' = "done"
    /\ UNCHANGED <<data, info, video_info, video_path, tmpFile, video_file_uploaded,
                   remoteFiles, ret, orch, failure, contents, calls>>

Next ==
    \/ ValidateRequest
    \/ GetVideoInfo
    \/ DownloadVideoSegment
    \/ AnalyzeEnter
    \/ UploadFile
    \/ Sleep
    \/ GetFile
    \/ Generate
    \/ FinallyUnlink
    \/ FinallyDelete
    \/ Respond

Spec == Init /\ [][Next]_vars

\* the event loop keeps running a request that can take a step
LiveSpec == Spec /\ WF_vars(Next)
-----------------------------------------------------------------------------
(* Concurrent requests: the steps of download_video_segment and                *)
(* analyze_with_gemini that touch the temporary files and the remote files,    *)
(* taken by NumReqs requests in any interleaving.  A request has its own       *)
(* locals (video_path, video_file_uploaded); the disk and the remote service   *)
(* are shared.                                                                 *)

Reqs == 1..NumReqs

\* a temporary-file allocation that may return a name already in use
AnyTmp(owner) == TmpPaths

\* NamedTemporaryFile (line 90) creates a file under a name not in use
FreshTmp(owner) == {p \in TmpPaths : owner[p] = 0}

\* the remote service names an uploaded file with a name not in use
FreshRemote(owner) == {n \in RemoteNames : owner[n] = 0}

ConcInit ==
    /\ pc = "done"
    /\ data = NoData
    /\ info = NoInfo
    /\ video_info = NoVideoInfo
    /\ video_path = PyNone
    /\ tmpFile = "none"
    /\ video_file_uploaded = NoFile
    /\ remoteFiles = {}
    /\ ret = NoAnalysis
    /\ orch = "idle"
    /\ failure = "none"
    /\ contents = <<>>
    /\ response = NoResponse
    /\ calls = NoCalls
    /\ reqs \in [Reqs -> {[pc |-> p, video_path |-> PyNone, video_file_uploaded |-> NoFile] :
                            p \in {"download_video_segment", "analyze_with_gemini"}}]
    /\ tmpOwner = [p \in TmpPaths |-> 0]
    /\ remoteOwner = [n \in RemoteNames |-> 0]
    /\ foreign = FALSE

mainVars == <<pc, data, info, video_info, video_path, tmpFile, video_file_uploaded,
              remoteFiles, ret, orch, failure, contents, response, calls>>

\* request r moves to position p
Goto(r, p) == [reqs EXCEPT ![r].pc = p]

\* request r touches a resource created by request o
Touch(r, o) == foreign' = (foreign \/ o # r)

\* the position after lines 115 and 119-120, with the file f just received
ConcAfterState(f) ==
    IF StillProcessing(f) THEN "sleep"
    ELSE IF ProcessingFailed(f) THEN "finally_unlink"
    ELSE "generate"

\* download_video_segment (lines 87-106)
ConcDownload(r) ==
    /\ reqs[r].pc = "download_video_segment"
    /\ \/ \* NamedTemporaryFile raises
          /\ reqs' = Goto(r, "analyze_with_gemini")
          /\ UNCHANGED tmpOwner
       \/ \E p \in FreshTmp(tmpOwner) :
            /\ tmpOwner' = [tmpOwner EXCEPT ![p] = r]
            /\ \/ \* ydl.download raises: None returned
                  reqs' = Goto(r, "analyze_with_gemini")
               \/ reqs' = [reqs EXCEPT ![r].pc = "analyze_with_gemini",
                                       ![r].video_path = p]
    /\ UNCHANGED <<remoteOwner, foreign, mainVars>>

\* lines 110-112
ConcEnter(r) ==
    /\ reqs[r].pc = "analyze_with_gemini"
    /\ reqs' = [reqs EXCEPT ![r].video_file_uploaded = NoFile,
                            ![r].pc = IF Truthy(reqs[r].video_path)
                                         /\ tmpOwner[reqs[r].video_path] # 0
                                      THEN "upload_file" ELSE "generate"]
    /\ UNCHANGED <<tmpOwner, remoteOwner, foreign, mainVars>>

\* genai.upload_file (line 114), then lines 115 and 119-120
ConcUpload(r) ==
    /\ reqs[r].pc = "upload_file"
    /\ \/ \* the upload raises (always so when the file is gone)
          /\ reqs' = Goto(r, "finally_unlink")
          /\ UNCHANGED <<remoteOwner, foreign>>
       \/ /\ tmpOwner[reqs[r].video_path] # 0
          /\ Touch(r, tmpOwner[reqs[r].video_path])
          /\ \E n \in FreshRemote(remoteOwner), s \in FileStates :
                /\ remoteOwner' = [remoteOwner EXCEPT ![n] = r]
                /\ reqs' = [reqs EXCEPT ![r].video_file_uploaded = File(n, s),
                                        ![r].pc = ConcAfterState(File(n, s))]
    /\ UNCHANGED <<tmpOwner, mainVars>>

\* asyncio.sleep(2) (line 116)
ConcSleep(r) ==
    /\ reqs[r].pc = "sleep"
    /\ reqs' = Goto(r, "get_file")
    /\ UNCHANGED <<tmpOwner, remoteOwner, foreign, mainVars>>

\* genai.get_file (line 117), then lines 115 and 119-120
ConcGetFile(r) ==
    /\ reqs[r].pc = "get_file"
    /\ Touch(r, remoteOwner[reqs[r].video_file_uploaded.name])
    /\ \/ reqs' = Goto(r, "finally_unlink")
       \/ \E s \in FileStates :
            LET f == File(reqs[r].video_file_uploaded.name, s)
            IN  reqs' = [reqs EXCEPT ![r].video_file_uploaded = f,
                                     ![r].pc = ConcAfterState(f)]
    /\ UNCHANGED <<tmpOwner, remoteOwner, mainVars>>

\* the generation call with the uploaded file, if any (lines 122-157)
ConcGenerate(r) ==
    /\ reqs[r].pc = "generate"
    /\ IF reqs[r].video_file_uploaded # NoFile
         THEN Touch(r, remoteOwner[reqs[r].video_file_uploaded.name])
         ELSE UNCHANGED foreign
    /\ reqs' = Goto(r, "finally_unlink")
    /\ UNCHANGED <<tmpOwner, remoteOwner, mainVars>>

\* the finally clause, lines 163-164
ConcUnlink(r) ==
    /\ reqs[r].pc = "finally_unlink"
    /\ IF Truthy(reqs[r].video_path) /\ tmpOwner[reqs[r].video_path] # 0
         THEN /\ Touch(r, tmpOwner[reqs[r].video_path])
              /\ \/ /\ tmpOwner' = [tmpOwner EXCEPT ![reqs[r].video_path] = 0]
                    /\ reqs' = Goto(r, "finally_delete")
                 \/ \* os.unlink raises: the call is left
                    /\ reqs' = Goto(r, "done")
                    /\ UNCHANGED tmpOwner
         ELSE /\ reqs' = Goto(r, "finally_delete")
              /\ UNCHANGED <<tmpOwner, foreign>>
    /\ UNCHANGED <<remoteOwner, mainVars>>

\* the finally clause, lines 165-166
ConcDelete(r) ==
    /\ reqs[r].pc = "finally_delete"
    /\ IF reqs[r].video_file_uploaded # NoFile
         THEN /\ Touch(r, remoteOwner[reqs[r].video_file_uploaded.name])
              /\ \/ remoteOwner' = [remoteOwner EXCEPT
                                        ![reqs[r].video_file_uploaded.name] = 0]
                 \/ \* genai.delete_file raises
                    UNCHANGED remoteOwner
         ELSE UNCHANGED <<remoteOwner, foreign>>
    /\ reqs' = Goto(r, "done")
    /\ UNCHANGED <<tmpOwner, mainVars>>

ConcNext ==
    \E r \in Reqs :
        \/ ConcDownload(r)
        \/ ConcEnter(r)
        \/ ConcUpload(r)
        \/ ConcSleep(r)
        \/ ConcGetFile(r)
        \/ ConcGenerate(r)
        \/ ConcUnlink(r)
        \/ ConcDelete(r)

ConcSpec == ConcInit /\ [][ConcNext]_vars
-----------------------------------------------------------------------------
(* Properties *)

\* the analyze_with_gemini call has ended, by a return or by an exception
Exited == orch \in {"returned", "raised"}

\* a remote file handle was obtained by the call
HandleObtained == video_file_uploaded # NoFile

\* the number of uploads that returned a handle
Handles == IF HandleObtained THEN 1 ELSE 0

\* time spent in asyncio.sleep
TimeSlept == calls["sleep"] * PollInterval

\* C1: analyze_with_gemini never fails towards its caller: whatever the
\* collaborator calls do (upload, get_file, generate, JSON parsing, os.unlink,
\* delete_file), the call ends by returning a report, the parsed result or the
\* fallback, and never by an exception.
C1_NeverPropagates ==
    /\ orch # "raised"
    /\ orch = "returned" => ret \in {SuccessReport, OtherJson, get_fallback_analysis}

\* C2: cleanup invariant: once analyze_with_gemini has ended, on any exit path,
\* the local sample file it was given no longer exists and the number of
\* delete_file calls equals the number of uploads that returned a handle.
C2_CleanupInvariant ==
    Exited => /\ Truthy(video_path) => tmpFile # "exists"
              /\ calls["delete_file"] = Handles

\* C3: the cleanup step runs exactly once per call on every exit path: at most
\* one os.unlink and at most one delete_file, and neither is skipped when its
\* resource exists (a sample file present at the finally clause, a handle).
C3_CleanupExactlyOnce ==
    /\ calls["unlink"] <= 1
    /\ calls["delete_file"] <= 1
    /\ Exited => /\ (Truthy(video_path) /\ tmpFile # "none") => calls["unlink"] = 1
                 /\ HandleObtained => calls["delete_file"] = 1

\* C4: when the remote file reaches the FAILED state (on upload or after any
\* number of polls), no generation call is issued, the call returns the
\* fallback result, and delete_file is still issued for the handle.
C4_FailedState ==
    failure = "failed_state" =>
        /\ calls["generate"] = 0
        /\ Exited => /\ orch = "returned"
                     /\ ret = get_fallback_analysis
                     /\ calls["delete_file"] = 1

C6_OptionalPathNeverAborts ==
    (pc = "done" /\ video_info # NoVideoInfo) =>
        /\ response.status = 200
        /\ response.analysis \in {SuccessReport, get_fallback_analysis}

\* C7: a generation response that is not valid JSON once the fences are removed
\* makes the analysis of the final output equal to the fallback result, and the
\* local sample and the remote handle are still cleaned up.
C7_ParseFailure ==
    (pc = "done" /\ failure = "json_loads") =>
        /\ response = ReportResponse(video_info, get_fallback_analysis)
        /\ Truthy(video_path) => tmpFile # "exists"
        /\ calls["delete_file"] = Handles

\* C8: every analyze_with_gemini call eventually ends, whatever the remote
\* service does; in particular a file that keeps reporting PROCESSING does not
\* keep the call polling forever.
C8_CallTerminates == (orch = "running") ~> Exited

\* C9: metadata defaulting: each optional field the provider leaves out, by
\* omitting the key or by a null value, gets the zero value of its type in the
\* VideoAnalysis, and the analysis never falls back because of such a field.
C9_MetadataDefaulting ==
    video_info # NoVideoInfo =>
        /\ \A f \in Fields :
              (f \notin DOMAIN info \/ info[f] = PyNone) =>
                  video_info[Attr(f)] = Default(f)
        /\ failure # "prompt"

\* the request does not ask for the analysis of the video content
FlagOff == data # NoData /\ ~Truthy(data.analyze_video_content)

\* C10 as stated: with analyze_video_content false or absent the sampler is
\* never invoked, analyze_with_gemini gets no sample, and the video_id of the
\* response is the identifier extract_video_id finds in the request URL.
C10_IdFromUrl ==
    FlagOff =>
        /\ calls["sampler"] = 0
        /\ video_path = PyNone
        /\ (pc = "done" /\ response.status = 200) =>
              response.video_info.video_id = extract_video_id(data.url)

\* C10 amended: with analyze_video_content false or absent the sampler is never
\* invoked, analyze_with_gemini gets no sample, no file is uploaded, and the
\* video_id of the response is the id the metadata provider reported (the empty
\* string when its response has no id).
C10_FlagOff ==
    FlagOff =>
        /\ calls["sampler"] = 0
        /\ pc # "download_video_segment"
        /\ video_path = PyNone
        /\ tmpFile = "none"
        /\ calls["upload"] = 0
        /\ (pc = "done" /\ response.status = 200) =>
              response.video_info.video_id =
                  (IF "id" \in DOMAIN info THEN info["id"] ELSE <<>>)

\* C10 witness: https://youtu.be/abc123 with the flag off is answered with the
\* metadata of abc123
C10_Witness ==
    /\ pc = "done"
    /\ FlagOff
    /\ data.url = <<"https://", Short, "abc123">>
    /\ extract_video_id(data.url) = <<"abc123">>
    /\ response.status = 200
    /\ response.video_info.video_id = <<"abc123">>
    /\ calls["generate"] = 1
\* the keys of a report, the error marker aside
ReportKeys == {"overall_score", "scores", "improvements", "viral_potential",
               "strengths", "weaknesses"}

\* C11: fallback shape invariant: every report analyze_with_gemini returns, the
\* parsed result as well as the fallback, has the same keys (overall_score,
\* scores, improvements, viral_potential, strengths, weaknesses) with values
\* of the same types; only the fallback carries the error marker.
C11_SameShape ==
    orch = "returned" =>
        /\ DOMAIN ret \ {"error"} = ReportKeys
        /\ DOMAIN get_fallback_analysis \ {"error"} = ReportKeys
        /\ ret.overall_score \in Nat
        /\ ret.viral_potential \in Nat
        /\ ("error" \in DOMAIN ret) <=> (ret = get_fallback_analysis)
\* C14: the generation call is submitted only when no handle was obtained or
\* the handle is READY, never while it is PROCESSING nor after it reported
\* FAILED, and the request carries the uploaded file exactly when a handle was
\* obtained.
C14_GenerateWhenReady ==
    (pc = "generate" \/ calls["generate"] > 0) =>
        /\ HandleObtained => video_file_uploaded.state = "READY"
        /\ failure \notin {"failed_state", "upload", "get_file"}
        /\ calls["generate"] > 0 =>
              IF HandleObtained
              THEN contents = <<"prompt", video_file_uploaded.name>>
              ELSE contents = <<"prompt">>

\* C14 witness: the file was polled until READY and the generation call was
\* submitted with the prompt and the file
C14_Witness ==
    /\ calls["generate"] = 1
    /\ calls["get_file"] >= 1
    /\ HandleObtained /\ video_file_uploaded.state = "READY"
    /\ contents = <<"prompt", "files/1">>

\* C16: single attempt: one analyze_with_gemini call issues at most one upload
\* and at most one generation call; a step that failed is not tried again.
C16_SingleAttempt ==
    /\ calls["upload"] <= 1
    /\ calls["generate"] <= 1
    /\ failure # "none" => pc \in {"finally_unlink", "finally_delete", "respond", "done"}

\* C16 witness: the generation call failed after an upload and the call ended
\* with one upload and one generation call
C16_Witness ==
    /\ Exited
    /\ failure = "generate"
    /\ calls["upload"] = 1
    /\ calls["generate"] = 1

\* C18: no temporary file leak: when the request is complete no temporary file
\* created by download_video_segment is left on disk, also when the download
\* failed after the file was created and the sampler returned None.
C18_NoTmpFileLeak == pc = "done" => tmpFile # "exists"

\* os.unlink was called and raised
UnlinkFailed == calls["unlink"] = 1 /\ tmpFile = "exists"

\* C19: the two cleanup actions are independent: when a handle was obtained,
\* delete_file is issued even if deleting the local sample file fails.
C19_CleanupIndependent ==
    (Exited /\ HandleObtained /\ UnlinkFailed) => calls["delete_file"] = 1

\* C20: no use after delete: the local sample file is deleted only after the
\* upload call returned or failed, and the remote file only after the
\* generation call returned or failed or was skipped by an earlier failure;
\* no step that uses a resource comes after its deletion.
C20_NoUseAfterDelete ==
    /\ calls["unlink"] > 0 =>
          /\ calls["upload"] = 1
          /\ pc \in {"finally_delete", "respond", "done"}
    /\ calls["delete_file"] > 0 =>
          /\ calls["generate"] = 1 \/ failure # "none"
          /\ pc \in {"respond", "done"}
    /\ pc \in {"upload_file", "sleep", "get_file", "generate"} =>
          /\ calls["unlink"] = 0
          /\ calls["delete_file"] = 0
          /\ HandleObtained => video_file_uploaded.name \in remoteFiles
          /\ Truthy(video_path) => tmpFile = "exists"

\* C20 witness: both resources were deleted, after the generation call
C20_Witness ==
    /\ orch = "returned"
    /\ tmpFile = "deleted"
    /\ calls["delete_file"] = 1
    /\ remoteFiles = {}
    /\ calls["generate"] = 1
    /\ failure = "none"
\* the request carries a URL in which extract_video_id finds an identifier
UrlValid == data # NoData /\ Truthy(data.url) /\ Truthy(extract_video_id(data.url))

NoUsableSample == ~(Truthy(video_path) /\ tmpFile # "none")

\* C13: when analyze_with_gemini receives no usable sample (the sampler failed,
\* the flag is off, or there is no file at the path) it issues no upload, no
\* status poll and no remote delete, and still submits the generation call,
\* with the prompt only.
C13_MetadataOnly ==
    (orch # "idle" /\ NoUsableSample) =>
        /\ calls["upload"] = 0
        /\ calls["sleep"] = 0
        /\ calls["get_file"] = 0
        /\ calls["delete_file"] = 0
        /\ ~HandleObtained
        /\ Exited => /\ calls["generate"] = 1
                     /\ contents = <<"prompt">>

\* the cleanup step of the call has been performed
CleanedUp ==
    /\ Truthy(video_path) => tmpFile # "exists"
    /\ calls["delete_file"] = Handles
    /\ remoteFiles = {}

\* C17: conditional liveness: if the remote file eventually reports a state
\* other than PROCESSING (the call does not poll forever) and every
\* collaborator call returns or fails, then under fair scheduling every
\* analyze_with_gemini call eventually returns a report, its cleanup done.
C17_EventuallyReturnsClean ==
    (<>[](pc \notin {"sleep", "get_file"})) =>
        ((orch = "running") ~> (orch = "returned" /\ CleanedUp))
\* request r still needs the sample file it was given
NeedsSample(r) ==
    /\ Truthy(reqs[r].video_path)
    /\ reqs[r].pc \in {"analyze_with_gemini", "upload_file", "sleep", "get_file",
                      "generate", "finally_unlink"}

\* request r still holds a remote file it has not deleted
NeedsRemote(r) ==
    /\ reqs[r].video_file_uploaded # NoFile
    /\ reqs[r].pc \in {"sleep", "get_file", "generate", "finally_unlink",
                      "finally_delete"}

\* C15: request isolation: in every interleaving of concurrent requests the
\* samplers obtain distinct temporary paths, each request uploads, polls and
\* deletes only its own sample file and its own remote file, and the cleanup
\* of one request never removes a resource another request still owns.
C15_RequestIsolation ==
    /\ ~foreign
    /\ \A r \in DOMAIN reqs :
          /\ NeedsSample(r) => tmpOwner[reqs[r].video_path] = r
          /\ NeedsRemote(r) => remoteOwner[reqs[r].video_file_uploaded.name] = r
    /\ \A r1, r2 \in DOMAIN reqs :
          r1 # r2 =>
            /\ (NeedsSample(r1) /\ NeedsSample(r2)) =>
                  reqs[r1].video_path # reqs[r2].video_path
            /\ (NeedsRemote(r1) /\ NeedsRemote(r2)) =>
                  reqs[r1].video_file_uploaded.name # reqs[r2].video_file_uploaded.name

\* C15 witness: request 1 has deleted its sample and is about to delete its
\* remote file while request 2 is polling its own file, its sample still on disk
C15_Witness ==
    /\ DOMAIN reqs = Reqs
    /\ reqs[1].pc = "finally_delete"
    /\ reqs[1].video_file_uploaded # NoFile
    /\ Truthy(reqs[1].video_path) /\ tmpOwner[reqs[1].video_path] = 0
    /\ reqs[2].pc = "get_file"
    /\ NeedsSample(2) /\ tmpOwner[reqs[2].video_path] = 2
    /\ remoteOwner[reqs[2].video_file_uploaded.name] = 2
    /\ remoteOwner[reqs[1].video_file_uploaded.name] = 1
====
